---------------------------- MODULE Spec2Model ----------------------------
(***************************************************************************)
(* Model of bmiclient.py: the routing / validation / dispatch loop of an   *)
(* MCP client.  A completion text is a sequence of JSON tokens, a console  *)
(* line is a sequence of characters, and json.loads, str.strip and         *)
(* str.lower are computed on them.                                         *)
(***************************************************************************)
EXTENDS Integers, Sequences, FiniteSets, TLC

\* Number of non-exit queries one session may read.
MaxTurns == 2

(***************************************************************************)
(* Console lines: str.strip and str.lower                                  *)
(***************************************************************************)
Chars(s) ==
    CASE s = "exit"   -> <<"e", "x", "i", "t">>
      [] s = "quit"   -> <<"q", "u", "i", "t">>
      [] s = "EXIT"   -> <<"E", "X", "I", "T">>
      [] s = " QuIt " -> <<" ", "Q", "u", "I", "t", " ">>
      [] s = "exits"  -> <<"e", "x", "i", "t", "s">>
      [] s = "ex it"  -> <<"e", "x", " ", "i", "t">>
      [] s = " bmi"   -> <<" ", "b", "m", "i">>
      [] s = "Joke"   -> <<"J", "o", "k", "e">>
      [] OTHER        -> << >>

\* The lines input() may return.
Lines ==
    { Chars(s) : s \in {"exit", "quit", "EXIT", " QuIt ", "exits", "ex it",
                        " bmi", "Joke", ""} }

IsSpace(c) == c \in {" ", "\t", "\n"}

RECURSIVE lstrip(_)
lstrip(s) ==
    IF s # << >> /\ IsSpace(Head(s)) THEN lstrip(Tail(s)) ELSE s

RECURSIVE rstrip(_)
rstrip(s) ==
    IF s # << >> /\ IsSpace(s[Len(s)])
    THEN rstrip(SubSeq(s, 1, Len(s) - 1))
    ELSE s

strip(s) == rstrip(lstrip(s))

lower_char(c) ==
    CASE c = "E" -> "e" [] c = "X" -> "x" [] c = "I" -> "i" [] c = "T" -> "t"
      [] c = "Q" -> "q" [] c = "U" -> "u" [] c = "J" -> "j"
      [] OTHER -> c

lower(s) == [i \in 1..Len(s) |-> lower_char(s[i])]

\* is_exit_command without lower().
is_exit_command_cased(query) == query \in {Chars("exit"), Chars("quit")}

\* query.lower() in ("exit", "quit")
is_exit_command(query) == lower(query) \in {Chars("exit"), Chars("quit")}

(***************************************************************************)
(* JSON texts and json.loads                                               *)
(*   token  <<"p", c>>   punctuation c                                     *)
(*          <<"s", x>>   string literal "x"                                *)
(*          <<"n", x>>   number literal x                                  *)
(*          <<"lit", x>> the literal true, false or null                   *)
(*          <<"w", x>>   a word of prose                                   *)
(*          <<"deep", "[">> more "[" in a row than the interpreter's       *)
(*                       recursion limit (sys.getrecursionlimit(), 1000)   *)
(*   value  <<"str", x>>, <<"num", x>>, <<"bool", x>>, <<"null", "">>,     *)
(*          <<"arr", elements>>, <<"obj", <<key, value>> pairs>>           *)
(***************************************************************************)
P(c) == <<"p", c>>
S(x) == <<"s", x>>
N(x) == <<"n", x>>
L(x) == <<"lit", x>>
W(x) == <<"w", x>>
DeepArrays == <<"deep", "[">>

None == <<"null", "">>

\* json.JSONDecodeError
NoParse == [ok |-> FALSE, val |-> None, next |-> 0, exc |-> "JSONDecodeError"]

\* RecursionError: the scanner nests one call per open array or object.
TooDeep == [ok |-> FALSE, val |-> None, next |-> 0, exc |-> "RecursionError"]

Parsed(value, next) == [ok |-> TRUE, val |-> value, next |-> next, exc |-> ""]

IsTok(toks, i, kind, x) ==
    i <= Len(toks) /\ toks[i][1] = kind /\ toks[i][2] = x

\* dict[key] = value: a repeated key keeps its first position, last value.
dict_set(pairs, key, value) ==
    IF \E j \in 1..Len(pairs) : pairs[j][1] = key
    THEN [j \in 1..Len(pairs) |->
             IF pairs[j][1] = key THEN <<key, value>> ELSE pairs[j]]
    ELSE Append(pairs, <<key, value>>)

RECURSIVE parse_value(_, _)
RECURSIVE parse_members(_, _, _)
RECURSIVE parse_elements(_, _, _)

\* Members of an object from position i (after "{" or ","), pairs so far.
parse_members(toks, i, pairs) ==
    IF i + 1 <= Len(toks) /\ toks[i][1] = "s" /\ IsTok(toks, i + 1, "p", ":")
    THEN LET v == parse_value(toks, i + 2) IN
         IF ~ v.ok THEN v
         ELSE LET d == dict_set(pairs, toks[i][2], v.val) IN
              IF IsTok(toks, v.next, "p", ",")
              THEN parse_members(toks, v.next + 1, d)
              ELSE IF IsTok(toks, v.next, "p", "}")
                   THEN Parsed(<<"obj", d>>, v.next + 1)
                   ELSE NoParse
    ELSE NoParse

\* Elements of an array from position i (after "[" or ","), elements so far.
parse_elements(toks, i, elems) ==
    LET v == parse_value(toks, i) IN
    IF ~ v.ok THEN v
    ELSE LET a == Append(elems, v.val) IN
         IF IsTok(toks, v.next, "p", ",")
         THEN parse_elements(toks, v.next + 1, a)
         ELSE IF IsTok(toks, v.next, "p", "]")
              THEN Parsed(<<"arr", a>>, v.next + 1)
              ELSE NoParse

parse_value(toks, i) ==
    IF i > Len(toks) THEN NoParse
    ELSE LET t == toks[i] IN
         CASE t[1] = "s" -> Parsed(<<"str", t[2]>>, i + 1)
           [] t[1] = "n" -> Parsed(<<"num", t[2]>>, i + 1)
           [] t[1] = "lit" ->
                Parsed(IF t[2] = "null" THEN None ELSE <<"bool", t[2]>>, i + 1)
           [] t[1] = "p" /\ t[2] = "{" ->
                IF IsTok(toks, i + 1, "p", "}")
                THEN Parsed(<<"obj", << >>>>, i + 2)
                ELSE parse_members(toks, i + 1, << >>)
           [] t[1] = "p" /\ t[2] = "[" ->
                IF IsTok(toks, i + 1, "p", "]")
                THEN Parsed(<<"arr", << >>>>, i + 2)
                ELSE parse_elements(toks, i + 1, << >>)
           [] t[1] = "deep" -> TooDeep
           [] OTHER -> NoParse

\* json.loads(text): the value, or the exception exc it raises.  The whole
\* text must be one value: anything after it is "Extra data".
json_loads(text) ==
    LET r == parse_value(text, 1) IN
    IF r.ok /\ r.next = Len(text) + 1
    THEN [ok |-> TRUE, val |-> r.val, exc |-> ""]
    ELSE [ok |-> FALSE, val |-> None,
          exc |-> IF r.ok THEN "JSONDecodeError" ELSE r.exc]

isinstance_dict(v) == v[1] = "obj"

\* key in d
dict_has(d, key) == \E j \in 1..Len(d[2]) : d[2][j][1] = key

\* d[key], for a key of d
dict_item(d, key) ==
    d[2][CHOOSE j \in 1..Len(d[2]) : d[2][j][1] = key][2]

\* d.get(key)
dict_get(d, key) == IF dict_has(d, key) THEN dict_item(d, key) ELSE None

\* if v: the truth value of v instead of its identity with True.
is_truthy(v) ==
    \/ v[1] = "bool" /\ v[2] = "true"
    \/ v[1] = "num" /\ v[2] # "0"
    \/ v[1] = "str" /\ v[2] # ""
    \/ v[1] \in {"arr", "obj"} /\ v[2] # << >>

\* v is True
is_True(v) == v[1] = "bool" /\ v[2] = "true"


(***************************************************************************)
(* Values that come from outside: catalog, completions, tool outcomes      *)
(***************************************************************************)
ToolDescriptor(name, description, inputSchema) ==
    [name |-> name, description |-> description, inputSchema |-> inputSchema]

BmiTool  == ToolDescriptor("bmi", "computes BMI", "{weight_kg, height_m}")
EchoTool == ToolDescriptor("echo", "echoes", "{}")

\* The catalogs session.list_tools() may return.
Catalogs == { << >>, <<BmiTool>>, <<BmiTool, EchoTool>> }

\* {"tool": <tool>, "arguments": <arguments>} with either member optional;
\* tool and arguments are token sequences, << >> leaves the member out.
ToolCallText(tool, arguments) ==
    <<P("{")>>
    \o (IF tool = << >> THEN << >> ELSE <<S("tool"), P(":")>> \o tool)
    \o (IF tool # << >> /\ arguments # << >> THEN <<P(",")>> ELSE << >>)
    \o (IF arguments = << >> THEN << >>
        ELSE <<S("arguments"), P(":")>> \o arguments)
    \o <<P("}")>>

BmiArguments ==
    <<P("{"), S("weight_kg"), P(":"), N("70"), P(","),
      S("height_m"), P(":"), N("1.75"), P("}")>>

\* Token sequences a completion may put where the tool name belongs.
ToolTokens ==
    { << >>, <<S("bmi")>>, <<S("BMI")>>, <<S("echo")>>, <<S("unknown_tool")>>,
      <<N("1")>>, <<L("null")>>, <<P("["), S("bmi"), P("]")>> }

\* Token sequences a completion may put where the arguments belong.
ArgumentTokens ==
    { << >>, BmiArguments, <<P("{"), P("}")>>, <<P("["), N("70"), P("]")>>,
      <<S("weight_kg=70")>>, <<L("null")>> }

\* The texts llm_client may return for the tool-selection prompt.
SelectionTexts ==
    { ToolCallText(t, a) : t \in ToolTokens, a \in ArgumentTokens }
    \cup { << >>,
           <<W("Sure"), W("thing")>>,
           <<N("42")>>,
           <<P("["), S("bmi"), P("]")>>,
           ToolCallText(<<S("bmi")>>, BmiArguments) \o <<W("Done")>>,
           <<W("Here")>> \o ToolCallText(<<S("bmi")>>, BmiArguments),
           SubSeq(ToolCallText(<<S("bmi")>>, BmiArguments), 1, 9),
           <<P("{"), S("tool"), P(":"), S("unknown_tool"), P(","),
             S("tool"), P(":"), S("bmi"), P(","),
             S("arguments"), P(":"), P("{"), P("}"), P("}")>> }

\* { "use_tool": <value> }
RouteText(value) == <<P("{"), S("use_tool"), P(":")>> \o value \o <<P("}")>>

\* The texts llm_client may return for the router prompt.
RouteTexts ==
    { RouteText(<<L("true")>>), RouteText(<<L("false")>>),
      RouteText(<<S("true")>>), RouteText(<<N("1")>>), RouteText(<<L("null")>>),
      <<P("{"), P("}")>>,
      << >>,
      <<W("Yes"), W("use"), W("it")>>,
      RouteText(<<L("true")>>) \o <<W("because")>>,
      <<P("{"), S("use_tool"), P(":")>>,
      <<P("["), L("true"), P("]")>>,
      <<L("true")>>,
      <<L("null")>>,
      <<S("use_tool")>>,
      <<N("1")>> }

\* The texts llm_client may return for the greeting or a direct answer.
AnswerTexts == { "Hello", "" }

\* Exceptions the completion call may raise (openai errors, or content None).
GatewayErrors == { "APIConnectionError", "AttributeError" }

TextContent(text) == <<"text", text>>
ImageContent(data) == <<"image", data>>

\* The content of a CallToolResult.
ToolContents ==
    { << >>, <<TextContent("22.86")>>, <<ImageContent("png")>>,
      <<TextContent("22.86"), TextContent("normal")>>,
      <<ImageContent("png"), TextContent("22.86")>> }

\* Exceptions session.call_tool may raise.
ToolErrors == { "McpError: tool crashed", "McpError: Connection closed" }

(***************************************************************************)
(* Prompt builders                                                         *)
(***************************************************************************)
GreetingPrompt ==
    [kind |-> "greeting", embedded |-> << >>, query |-> << >>]

\* llm_client(query): the query itself is the prompt.
QueryPrompt(query) ==
    [kind |-> "query", embedded |-> << >>, query |-> query]

get_router_prompt(query, tls) ==
    [kind |-> "router",
     embedded |-> [i \in 1..Len(tls) |-> <<tls[i].name>>],
     query |-> query]

get_tool_selection_prompt(query, tls) ==
    [kind |-> "selection",
     embedded |-> [i \in 1..Len(tls) |->
                     <<tls[i].name, tls[i].description, tls[i].inputSchema>>],
     query |-> query]

(***************************************************************************)
(* Validator                                                               *)
(***************************************************************************)
tool_names(tls) == { tls[i].name : i \in 1..Len(tls) }

\* parsed["tool"] in [tool.name for tool in tools]: only a str equals a name.
name_in_catalog(v, tls) == v[1] = "str" /\ v[2] \in tool_names(tls)

\* "True" or "False" for the value returned, else the exception raised: the
\* except clause of line 75 names json.JSONDecodeError only.
is_valid_tool_call(response, tls) ==
    LET r == json_loads(response) IN
    IF ~ r.ok THEN (IF r.exc = "JSONDecodeError" THEN "False" ELSE r.exc)
    ELSE LET parsed == r.val IN
         IF ~ isinstance_dict(parsed) THEN "False"
         ELSE IF ~ dict_has(parsed, "tool") \/ ~ dict_has(parsed, "arguments")
              THEN "False"
         ELSE IF ~ name_in_catalog(dict_item(parsed, "tool"), tls) THEN "False"
         ELSE IF ~ isinstance_dict(dict_item(parsed, "arguments")) THEN "False"
         ELSE "True"

(***************************************************************************)
(* run(): the session loop                                                 *)
(***************************************************************************)
VARIABLES
    pc,              \* where run() is: Start, Greeting, Idle, Routing, Selecting,
                     \* ToolCall, Direct, Fallback, Exit, Crashed
    tools,           \* tools.tools, the catalog
    fetches,         \* list_tools calls made this session
    greet_calls,     \* greeting completions requested this session
    turn,            \* queries routed so far
    raw,             \* the line input() returned
    query,           \* query
    route_response,  \* route_response, or Unset
    tool_response,   \* tool_response, or Unset
    verdict,         \* what is_valid_tool_call returned this turn, or "none"
    llm_calls,       \* llm_client calls of this turn, in order
    tool_calls,      \* session.call_tool calls of this turn, in order
    inflight,        \* outbound calls awaiting their response
    printed,         \* what this turn printed, in order
    caught,          \* the exception the except clause of line 125 bound
    error,           \* the exception that left run(), "" if none
    error_line       \* the line of run() that raised it, 0 if none

vars ==
    <<pc, tools, fetches, greet_calls, turn, raw, query, route_response,
      tool_response, verdict, llm_calls, tool_calls, inflight, printed, caught, error,
      error_line>>

Unset == <<<<"unset", "">>>>

Line(kind, text) == [kind |-> kind, text |-> text, echo |-> << >>]

Completion(purpose, prompt) == [purpose |-> purpose, prompt |-> prompt]

\* The outbound call whose response just arrived is no longer in flight.
Answered == SubSeq(inflight, 1, Len(inflight) - 1)

Init ==
    /\ pc = "Start"
    /\ tools = << >>
    /\ fetches = 0
    /\ greet_calls = 0
    /\ turn = 0
    /\ raw = << >>
    /\ query = << >>
    /\ route_response = Unset
    /\ tool_response = Unset
    /\ verdict = "none"
    /\ llm_calls = << >>
    /\ tool_calls = << >>
    /\ inflight = << >>
    /\ printed = << >>
    /\ caught = ""
    /\ error = ""
    /\ error_line = 0

\* Lines 82-86: initialize, fetch the catalog, ask for the greeting.
Startup(catalog) ==
    /\ pc = "Start"
    /\ tools' = catalog
    /\ fetches' = fetches + 1
    /\ greet_calls' = greet_calls + 1
    /\ llm_calls' = Append(llm_calls, Completion("greeting", GreetingPrompt))
    /\ inflight' = Append(inflight, "llm")
    /\ pc' = "Greeting"
    /\ UNCHANGED <<turn, raw, query, route_response, tool_response, verdict,
                   tool_calls, printed, caught, error, error_line>>

\* Lines 86-87: the greeting arrived and is printed.
GreetingReturn(text) ==
    /\ pc = "Greeting"
    /\ inflight' = Answered
    /\ printed' = Append(printed, Line("greeting", text))
    /\ pc' = "Idle"
    /\ UNCHANGED <<tools, fetches, greet_calls, turn, raw, query, route_response,
                   tool_response, verdict, llm_calls, tool_calls, caught, error,
                   error_line>>

\* The line of run() whose llm_client call is awaited at pc.
LlmLine(at) ==
    CASE at = "Greeting"  -> 86
      [] at = "Routing"   -> 97
      [] at = "Fallback"  -> 103
      [] at = "Selecting" -> 109
      [] at = "Direct"    -> 132

\* llm_client raises: no try of run() encloses any of its calls, so the
\* exception leaves run().
LlmRaise(e) ==
    /\ pc \in {"Greeting", "Routing", "Fallback", "Selecting", "Direct"}
    /\ inflight' = Answered
    /\ error' = e
    /\ error_line' = LlmLine(pc)
    /\ pc' = "Crashed"
    /\ UNCHANGED <<tools, fetches, greet_calls, turn, raw, query, route_response,
                   tool_response, verdict, llm_calls, tool_calls, printed, caught>>

\* ReadLine keeping the calls and the output of the turns before.
ReadLineRemembering(line) ==
    /\ pc = "Idle"
    /\ is_exit_command(strip(line)) \/ turn < MaxTurns
    /\ raw' = line
    /\ query' = strip(line)
    /\ route_response' = Unset
    /\ tool_response' = Unset
    /\ verdict' = "none"
    /\ tool_calls' = << >>
    /\ caught' = ""
    /\ IF is_exit_command(query')
       THEN /\ printed' = <<Line("farewell", "Goodbye!")>>
            /\ llm_calls' = << >>
            /\ pc' = "Exit"
            /\ UNCHANGED <<turn, inflight>>
       ELSE /\ printed' = << >>
            /\ llm_calls' = (IF turn = 0 THEN << >> ELSE llm_calls) \o
                 <<Completion("route", get_router_prompt(query', tools))>>
            /\ inflight' = Append(inflight, "llm")
            /\ turn' = turn + 1
            /\ pc' = "Routing"
    /\ UNCHANGED <<tools, fetches, greet_calls, error, error_line>>

\* ReadLine fetching the catalog again in every turn.
ReadLineRefetching(line) ==
    /\ pc = "Idle"
    /\ is_exit_command(strip(line)) \/ turn < MaxTurns
    /\ raw' = line
    /\ query' = strip(line)
    /\ route_response' = Unset
    /\ tool_response' = Unset
    /\ verdict' = "none"
    /\ tool_calls' = << >>
    /\ caught' = ""
    /\ IF is_exit_command(query')
       THEN /\ printed' = <<Line("farewell", "Goodbye!")>>
            /\ llm_calls' = << >>
            /\ pc' = "Exit"
            /\ UNCHANGED <<turn, inflight, tools, fetches>>
       ELSE /\ printed' = << >>
            /\ \E catalog \in Catalogs : tools' = catalog
            /\ fetches' = fetches + 1
            /\ llm_calls' =
                 <<Completion("route", get_router_prompt(query', tools'))>>
            /\ inflight' = Append(inflight, "llm")
            /\ turn' = turn + 1
            /\ pc' = "Routing"
    /\ UNCHANGED <<greet_calls, error, error_line>>

\* ReadLine with the greeting inside the while loop.
ReadLineGreeting(line) ==
    /\ pc = "Idle"
    /\ is_exit_command(strip(line)) \/ turn < MaxTurns
    /\ raw' = line
    /\ query' = strip(line)
    /\ route_response' = Unset
    /\ tool_response' = Unset
    /\ verdict' = "none"
    /\ tool_calls' = << >>
    /\ caught' = ""
    /\ IF is_exit_command(query')
       THEN /\ printed' = <<Line("farewell", "Goodbye!")>>
            /\ llm_calls' = << >>
            /\ pc' = "Exit"
            /\ UNCHANGED <<turn, inflight, greet_calls>>
       ELSE /\ printed' = <<Line("greeting", "Hello")>>
            /\ greet_calls' = greet_calls + 1
            /\ llm_calls' =
                 <<Completion("greeting", GreetingPrompt),
                   Completion("route", get_router_prompt(query', tools))>>
            /\ inflight' = Append(inflight, "llm")
            /\ turn' = turn + 1
            /\ pc' = "Routing"
    /\ UNCHANGED <<tools, fetches, error, error_line>>

\* Lines 90-97: read a line; leave on exit or quit, else ask for the route.
ReadLine(line) ==
    /\ pc = "Idle"
    /\ is_exit_command(strip(line)) \/ turn < MaxTurns
    /\ raw' = line
    /\ query' = strip(line)
    /\ route_response' = Unset
    /\ tool_response' = Unset
    /\ verdict' = "none"
    /\ tool_calls' = << >>
    /\ caught' = ""
    /\ IF is_exit_command(query')
       THEN /\ printed' = <<Line("farewell", "Goodbye!")>>
            /\ llm_calls' = << >>
            /\ pc' = "Exit"
            /\ UNCHANGED <<turn, inflight>>
       ELSE /\ printed' = << >>
            /\ llm_calls' =
                 <<Completion("route", get_router_prompt(query', tools))>>
            /\ inflight' = Append(inflight, "llm")
            /\ turn' = turn + 1
            /\ pc' = "Routing"
    /\ UNCHANGED <<tools, fetches, greet_calls, error, error_line>>

\* Lines 97-109 and 129-132: the route decision arrived.
RouteReturn(text) ==
    /\ pc = "Routing"
    /\ route_response' = text
    /\ LET r == json_loads(text) IN
       IF ~ r.ok /\ r.exc # "JSONDecodeError"
       THEN \* line 100 raises what the except of line 101 does not name
            /\ inflight' = Answered
            /\ error' = r.exc
            /\ error_line' = 100
            /\ pc' = "Crashed"
            /\ UNCHANGED <<printed, llm_calls>>
       ELSE IF ~ r.ok
       THEN /\ printed' = Append(printed, Line("fallback_notice",
                 "Invalid router response. Falling back to direct LLM answer."))
            /\ llm_calls' = Append(llm_calls,
                                   Completion("answer", QueryPrompt(query)))
            /\ inflight' = Append(Answered, "llm")
            /\ pc' = "Fallback"
            /\ UNCHANGED <<error, error_line>>
       ELSE IF ~ isinstance_dict(r.val)
       THEN \* route_decision.get: list, str, int, bool and None have no get
            /\ inflight' = Answered
            /\ error' = "AttributeError"
            /\ error_line' = 106
            /\ pc' = "Crashed"
            /\ UNCHANGED <<printed, llm_calls>>
       ELSE IF is_True(dict_get(r.val, "use_tool"))
       THEN /\ llm_calls' = Append(llm_calls,
                 Completion("selection", get_tool_selection_prompt(query, tools)))
            /\ inflight' = Append(Answered, "llm")
            /\ pc' = "Selecting"
            /\ UNCHANGED <<printed, error, error_line>>
       ELSE /\ printed' = Append(printed, Line("direct_header",
                                               "Direct answer from LLM:"))
            /\ llm_calls' = Append(llm_calls,
                                   Completion("answer", QueryPrompt(query)))
            /\ inflight' = Append(Answered, "llm")
            /\ pc' = "Direct"
            /\ UNCHANGED <<error, error_line>>
    /\ UNCHANGED <<tools, fetches, greet_calls, turn, raw, query, tool_response,
                   verdict, tool_calls, caught>>

\* Lines 103 and 132: the direct answer arrived and is printed.
DirectReturn(text) ==
    /\ pc \in {"Direct", "Fallback"}
    /\ inflight' = Answered
    /\ printed' = Append(printed, Line("answer", text))
    /\ pc' = "Idle"
    /\ UNCHANGED <<tools, fetches, greet_calls, turn, raw, query, route_response,
                   tool_response, verdict, llm_calls, tool_calls, caught, error,
                   error_line>>

\* SelectReturn dispatching whatever parses, whatever the validator said.
SelectReturnUnvalidated(text) ==
    /\ pc = "Selecting"
    /\ tool_response' = text
    /\ verdict' = is_valid_tool_call(text, tools)
    /\ LET r == json_loads(text) IN
       IF r.ok /\ isinstance_dict(r.val) /\ dict_has(r.val, "tool")
          /\ dict_has(r.val, "arguments")
       THEN /\ tool_calls' = Append(tool_calls,
                 [name |-> dict_item(r.val, "tool"),
                  arguments |-> dict_item(r.val, "arguments")])
            /\ inflight' = Append(Answered, "tool")
            /\ pc' = "ToolCall"
            /\ UNCHANGED <<printed, error, error_line>>
       ELSE IF verdict' = "False"
       THEN /\ printed' = Append(printed, Line("invalid_tool_call",
                                     "Invalid tool call response from LLM."))
            /\ inflight' = Answered
            /\ pc' = "Idle"
            /\ UNCHANGED <<tool_calls, error, error_line>>
       ELSE \* line 111 raises
            /\ inflight' = Answered
            /\ error' = verdict'
            /\ error_line' = 111
            /\ pc' = "Crashed"
            /\ UNCHANGED <<tool_calls, printed>>
    /\ UNCHANGED <<tools, fetches, greet_calls, turn, raw, query, route_response,
                   llm_calls, caught>>

\* SelectReturn starting call_tool without awaiting it.
SelectReturnNoAwait(text) ==
    /\ pc = "Selecting"
    /\ tool_response' = text
    /\ verdict' = is_valid_tool_call(text, tools)
    /\ IF verdict' = "True"
       THEN LET tool_call == json_loads(text).val IN
            /\ tool_calls' = Append(tool_calls,
                 [name |-> dict_item(tool_call, "tool"),
                  arguments |-> dict_item(tool_call, "arguments")])
            /\ inflight' = Append(Answered, "tool")
            /\ printed' = Append(printed, Line("tool_result", ""))
       ELSE /\ printed' = Append(printed, Line("invalid_tool_call",
                                     "Invalid tool call response from LLM."))
            /\ inflight' = Answered
            /\ UNCHANGED tool_calls
    /\ pc' = "Idle"
    /\ UNCHANGED <<tools, fetches, greet_calls, turn, raw, query, route_response,
                   llm_calls, caught, error, error_line>>

\* SelectReturn calling the tool with empty arguments.
SelectReturnDroppingArguments(text) ==
    /\ pc = "Selecting"
    /\ tool_response' = text
    /\ verdict' = is_valid_tool_call(text, tools)
    /\ IF verdict' = "True"
       THEN LET tool_call == json_loads(text).val IN
            /\ tool_calls' = Append(tool_calls,
                 [name |-> dict_item(tool_call, "tool"),
                  arguments |-> <<"obj", << >>>>])
            /\ inflight' = Append(Answered, "tool")
            /\ pc' = "ToolCall"
            /\ UNCHANGED <<printed, error, error_line>>
       ELSE /\ printed' = Append(printed, Line("invalid_tool_call",
                                     "Invalid tool call response from LLM."))
            /\ inflight' = Answered
            /\ pc' = "Idle"
            /\ UNCHANGED <<tool_calls, error, error_line>>
    /\ UNCHANGED <<tools, fetches, greet_calls, turn, raw, query, route_response,
                   llm_calls, caught>>

\* SelectReturn answering the query directly after an invalid tool call.
SelectReturnFallingBack(text) ==
    /\ pc = "Selecting"
    /\ tool_response' = text
    /\ verdict' = is_valid_tool_call(text, tools)
    /\ IF verdict' = "True"
       THEN LET tool_call == json_loads(text).val IN
            /\ tool_calls' = Append(tool_calls,
                 [name |-> dict_item(tool_call, "tool"),
                  arguments |-> dict_item(tool_call, "arguments")])
            /\ inflight' = Append(Answered, "tool")
            /\ pc' = "ToolCall"
            /\ UNCHANGED <<printed, llm_calls>>
       ELSE /\ printed' = Append(printed, Line("invalid_tool_call",
                                     "Invalid tool call response from LLM."))
            /\ llm_calls' = Append(llm_calls,
                                   Completion("answer", QueryPrompt(query)))
            /\ inflight' = Append(Answered, "llm")
            /\ pc' = "Direct"
            /\ UNCHANGED tool_calls
    /\ UNCHANGED <<tools, fetches, greet_calls, turn, raw, query, route_response,
                   caught, error, error_line>>

\* Lines 109-117 and 127-128: the tool selection arrived.
SelectReturn(text) ==
    /\ pc = "Selecting"
    /\ tool_response' = text
    /\ verdict' = is_valid_tool_call(text, tools)
    /\ IF verdict' = "True"
       THEN LET tool_call == json_loads(text).val IN
            /\ tool_calls' = Append(tool_calls,
                 [name |-> dict_item(tool_call, "tool"),
                  arguments |-> dict_item(tool_call, "arguments")])
            /\ inflight' = Append(Answered, "tool")
            /\ pc' = "ToolCall"
            /\ UNCHANGED <<printed, error, error_line>>
       ELSE IF verdict' = "False"
       THEN /\ printed' = Append(printed, Line("invalid_tool_call",
                                     "Invalid tool call response from LLM."))
            /\ inflight' = Answered
            /\ pc' = "Idle"
            /\ UNCHANGED <<tool_calls, error, error_line>>
       ELSE \* line 111 raises
            /\ inflight' = Answered
            /\ error' = verdict'
            /\ error_line' = 111
            /\ pc' = "Crashed"
            /\ UNCHANGED <<tool_calls, printed>>
    /\ UNCHANGED <<tools, fetches, greet_calls, turn, raw, query, route_response,
                   llm_calls, caught>>

\* print(f"Tool execution failed: {e}")
ToolFailed(e) == Line("tool_failed", e)

\* Lines 115-126: call_tool returned; the message is formatted inside the try.
ToolReturn(content) ==
    /\ pc = "ToolCall"
    /\ inflight' = Answered
    /\ IF content = << >>
       THEN /\ caught' = "IndexError: list index out of range"
            /\ printed' = Append(printed, ToolFailed(caught'))
       ELSE IF content[1][1] # "text"
       THEN /\ caught' = "AttributeError: object has no attribute 'text'"
            /\ printed' = Append(printed, ToolFailed(caught'))
       ELSE /\ caught' = ""
            /\ printed' = Append(printed,
                 [kind |-> "tool_result", text |-> content[1][2],
                  echo |-> <<dict_get(tool_calls[Len(tool_calls)].arguments,
                                      "weight_kg"),
                             dict_get(tool_calls[Len(tool_calls)].arguments,
                                      "height_m")>>])
    /\ pc' = "Idle"
    /\ UNCHANGED <<tools, fetches, greet_calls, turn, raw, query, route_response,
                   tool_response, verdict, llm_calls, tool_calls, error,
                   error_line>>

\* ToolRaise without the except clause: the exception leaves run().
ToolRaiseUncaught(e) ==
    /\ pc = "ToolCall"
    /\ inflight' = Answered
    /\ error' = e
    /\ error_line' = 115
    /\ pc' = "Crashed"
    /\ UNCHANGED <<tools, fetches, greet_calls, turn, raw, query, route_response,
                   tool_response, verdict, llm_calls, tool_calls, printed,
                   caught>>

\* ToolRaise calling the tool a second time after a failure.
ToolRaiseRetrying(e) ==
    /\ pc = "ToolCall"
    /\ IF Len(tool_calls) = 1
       THEN /\ tool_calls' = Append(tool_calls, tool_calls[1])
            /\ UNCHANGED <<inflight, caught, printed, pc>>
       ELSE /\ inflight' = Answered
            /\ caught' = e
            /\ printed' = Append(printed, ToolFailed(e))
            /\ pc' = "Idle"
            /\ UNCHANGED tool_calls
    /\ UNCHANGED <<tools, fetches, greet_calls, turn, raw, query, route_response,
                   tool_response, verdict, llm_calls, error, error_line>>

\* Lines 125-126: call_tool raised; except Exception reports it.
ToolRaise(e) ==
    /\ pc = "ToolCall"
    /\ inflight' = Answered
    /\ caught' = e
    /\ printed' = Append(printed, ToolFailed(e))
    /\ pc' = "Idle"
    /\ UNCHANGED <<tools, fetches, greet_calls, turn, raw, query, route_response,
                   tool_response, verdict, llm_calls, tool_calls, error,
                   error_line>>

Next ==
    \/ \E catalog \in Catalogs : Startup(catalog)
    \/ \E text \in AnswerTexts : GreetingReturn(text)
    \/ \E e \in GatewayErrors : LlmRaise(e)
    \/ \E line \in Lines : ReadLine(line)
    \/ \E text \in RouteTexts : RouteReturn(text)
    \/ \E text \in AnswerTexts : DirectReturn(text)
    \/ \E text \in SelectionTexts : SelectReturn(text)
    \/ \E content \in ToolContents : ToolReturn(content)
    \/ \E e \in ToolErrors : ToolRaise(e)

Spec == Init /\ [][Next]_vars

(***************************************************************************)
(* is_valid_tool_call on its own: any text, any catalog                    *)
(***************************************************************************)
\* The texts of the session and texts nested beyond the recursion limit, which
\* a completion of max_tokens = 300 need not be able to hold.
ValidatorTexts ==
    SelectionTexts
    \cup { <<DeepArrays>>, ToolCallText(<<S("bmi")>>, <<DeepArrays>>),
           <<W("Sure"), DeepArrays>> }

ValidatorInit ==
    /\ pc = "Validate"
    /\ tools \in Catalogs
    /\ tool_response \in ValidatorTexts
    /\ verdict = "none"
    /\ fetches = 1
    /\ greet_calls = 0
    /\ turn = 0
    /\ raw = << >>
    /\ query = << >>
    /\ route_response = Unset
    /\ llm_calls = << >>
    /\ tool_calls = << >>
    /\ inflight = << >>
    /\ printed = << >>
    /\ caught = ""
    /\ error = ""
    /\ error_line = 0

\* is_valid_tool_call(tool_response, tools)
Validate ==
    /\ pc = "Validate"
    /\ verdict' = is_valid_tool_call(tool_response, tools)
    /\ pc' = "Validated"
    /\ UNCHANGED <<tools, fetches, greet_calls, turn, raw, query, route_response,
                   tool_response, llm_calls, tool_calls, inflight, printed,
                   caught, error, error_line>>

ValidatorNext == Validate

ValidatorSpec == ValidatorInit /\ [][ValidatorNext]_vars

(***************************************************************************)
(* Properties                                                              *)
(***************************************************************************)
JsonObject(members) == <<P("{")>> \o members \o <<P("}")>>

\* The completion texts that spell a JSON object with a member "tool" whose
\* value names a tool of the catalog and a member "arguments" whose value is
\* an object, written out token by token.
WellFormedToolCalls(tls) ==
    LET Arguments == { BmiArguments, JsonObject(<< >>) }
        Call(name, args) ==
            JsonObject(<<S("tool"), P(":"), S(name), P(","),
                         S("arguments"), P(":")>> \o args)
        \* a repeated member: the value of "tool" is that of its last occurrence
        Repeated(name) ==
            JsonObject(<<S("tool"), P(":"), S("unknown_tool"), P(","),
                         S("tool"), P(":"), S(name), P(","),
                         S("arguments"), P(":")>> \o JsonObject(<< >>))
    IN  UNION { { Call(tls[i].name, a) : a \in Arguments }
                \cup { Repeated(tls[i].name) } : i \in 1..Len(tls) }

LastPrinted == printed[Len(printed)]

\* C1: call_tool is invoked only for a selection response of the same turn that
\* passed validation: a JSON object with members tool and arguments, tool a
\* name of the catalog, arguments an object.  No other response reaches it.
C1_CallToolOnlyAfterValidation ==
    (tool_calls # << >> \/ pc = "ToolCall" \/ "tool" \in {inflight[i] : i \in DOMAIN inflight})
        => /\ tool_response \in WellFormedToolCalls(tools)
           /\ verdict = "True"
           /\ Len(tool_calls) = 1
           /\ tool_calls[1].name[1] = "str"
           /\ tool_calls[1].name[2] \in tool_names(tools)
           /\ tool_calls[1].arguments[1] = "obj"

C1_Witness ==
    /\ pc = "ToolCall"
    /\ tool_calls # << >>
    /\ tool_response = ToolCallText(<<S("echo")>>, <<P("{"), P("}")>>)

\* C3: a tool failure never ends the session: when call_tool raises, the error
\* is caught, the tool-execution-failed notice with its message is the turn's
\* output, and the loop is at Idle where the next line can be read.
C3_ToolFailureIsReported ==
    /\ error \notin ToolErrors
    /\ caught \in ToolErrors =>
          /\ pc = "Idle"
          /\ error = ""
          /\ LastPrinted = ToolFailed(caught)
          /\ ENABLED (\E line \in Lines : ReadLine(line))

C3_Witness == caught \in ToolErrors /\ pc = "Idle" /\ turn = 1

\* C6: the validator accepts a text exactly when the whole text is a JSON
\* object with members tool and arguments, tool equal to a catalog name
\* (case-sensitive) and arguments an object; it returns a verdict, and never
\* raises, for every text and catalog, the empty catalog included.
C6_ValidatorTotalAndExact ==
    pc = "Validated" =>
        /\ verdict \in {"True", "False"}
        /\ verdict = "True" <=> tool_response \in WellFormedToolCalls(tools)
        /\ tools = << >> => verdict = "False"

InTurn == pc \in {"Routing", "Selecting", "ToolCall", "Direct", "Fallback"}

Purposes == [i \in DOMAIN llm_calls |-> llm_calls[i].purpose]

\* C2: no error inside a turn leaves the loop: whatever fails after a query
\* was read, the session does not end with an unhandled exception.
C2_NoTurnErrorLeavesLoop == turn >= 1 => pc # "Crashed"

\* Route texts that do not parse into a boolean use_tool: malformed JSON, JSON
\* that is no object, an object without use_tool, a use_tool that is no boolean.
UnparsedRouteTexts ==
    { << >>, <<W("Yes"), W("use"), W("it")>>,
      <<P("{"), S("use_tool"), P(":"), L("true"), P("}"), W("because")>>,
      <<P("{"), S("use_tool"), P(":")>>,
      <<P("["), L("true"), P("]")>>, <<L("true")>>, <<L("null")>>,
      <<S("use_tool")>>, <<N("1")>>,
      <<P("{"), P("}")>>,
      <<P("{"), S("use_tool"), P(":"), S("true"), P("}")>>,
      <<P("{"), S("use_tool"), P(":"), N("1"), P("}")>>,
      <<P("{"), S("use_tool"), P(":"), L("null"), P("}")>> }

DirectAnswerOnly ==
    /\ pc \in {"Direct", "Fallback", "Idle"}
    /\ tool_calls = << >>
    /\ "selection" \notin {Purposes[i] : i \in DOMAIN Purposes}
    /\ Len(llm_calls) = 2
    /\ llm_calls[2] = Completion("answer", QueryPrompt(query))

\* C4: a route response that fails to parse makes the turn a direct answer
\* (one completion of the query, no tool call) that ends at Idle; the loop
\* does not crash.
C4_UnparsedRouteFallsBack ==
    route_response \in UnparsedRouteTexts => DirectAnswerOnly

\* C5: when the route decision is use_tool = false the turn makes exactly one
\* completion call for the answer, with the query as prompt, no call_tool, and
\* returns to Idle.
C5_NoToolRouteAnswersDirectly ==
    route_response = <<P("{"), S("use_tool"), P(":"), L("false"), P("}")>>
        => DirectAnswerOnly

\* The lines that, trimmed, are exit or quit in some letter case.
ExitLines ==
    { <<"e", "x", "i", "t">>, <<"q", "u", "i", "t">>, <<"E", "X", "I", "T">>,
      <<" ", "Q", "u", "I", "t", " ">> }

C7_ExitState ==
    pc = "Exit" =>
        /\ raw \in ExitLines
        /\ printed = <<Line("farewell", "Goodbye!")>>
        /\ llm_calls = << >> /\ tool_calls = << >> /\ inflight = << >>

C7_ReadStep ==
    /\ pc' = "Exit" => pc \in {"Idle", "Exit"}
    /\ (pc = "Idle" /\ pc' # "Idle") =>
          IF raw' \in ExitLines
          THEN pc' = "Exit"
          ELSE /\ pc' = "Routing"
               /\ Purposes' = <<"route">>
               /\ tool_calls' = << >>

\* C7: at Idle a line that trimmed is exit or quit in any letter case prints
\* the farewell and ends at Exit with no completion and no tool call; any other
\* line starts routing; Exit is entered from the Idle read point only.
C7_ExitOnlyByKeyword == []C7_ExitState /\ [][C7_ReadStep]_vars

C7_Witness == pc = "Exit" /\ raw = <<" ", "Q", "u", "I", "t", " ">> /\ turn = 1

\* C8: a failure of the greeting completion is not fatal: the session does
\* not end with the exception of the greeting call.
C8_GreetingFailureNotFatal == ~ (pc = "Crashed" /\ error_line = 86)

C9_State ==
    /\ greet_calls <= 1
    /\ pc # "Start" => greet_calls = 1 /\ fetches = 1
    /\ pc = "Greeting" =>
          /\ llm_calls = <<Completion("greeting", GreetingPrompt)>>
          /\ raw = << >> /\ turn = 0
    /\ (pc = "Idle" /\ turn = 0) =>
          /\ Len(printed) = 1
          /\ printed[1].kind = "greeting"
    /\ turn >= 1 => "greeting" \notin {Purposes[i] : i \in DOMAIN Purposes}

C9_Step ==
    /\ greet_calls' # greet_calls => pc = "Start" /\ fetches' = 1
    /\ turn' # turn =>
          /\ pc = "Idle"
          /\ greet_calls' = greet_calls
          /\ turn = 0 => printed[1].kind = "greeting"

\* C9: the greeting is requested exactly once per session, with a fixed prompt
\* that holds no user input, after the catalog is fetched; it is printed before
\* the first line is read and no turn requests it again.
C9_GreetingOnce == []C9_State /\ [][C9_Step]_vars

C9_Witness == pc = "Idle" /\ turn = 2 /\ greet_calls = 1

Outcomes ==
    {"answer", "invalid_tool_call", "tool_result", "tool_failed"}

C10_State ==
    /\ Len(inflight) <= 1
    /\ InTurn \/ pc = "Greeting" => Len(inflight) = 1
    /\ pc \in {"Start", "Idle", "Exit", "Crashed"} => inflight = << >>
    /\ inflight # << >> =>
          inflight[1] = IF pc = "ToolCall" THEN "tool" ELSE "llm"

C10_Step ==
    raw' # raw \/ turn' # turn =>
        /\ pc = "Idle"
        /\ inflight = << >>
        /\ turn >= 1 => printed # << >> /\ LastPrinted.kind \in Outcomes

\* C10: the session is sequential: at most one outbound call is in flight, and
\* a line is read only when the turn before it has no call in flight and has
\* printed its outcome.
C10_Sequential == []C10_State /\ [][C10_Step]_vars

C10_Witness ==
    /\ pc = "Routing" /\ turn = 2
    /\ inflight = <<"llm">>

(***************************************************************************)
(* A turn as a function of its inputs                                      *)
(***************************************************************************)
\* Route texts by what they spell.
ToolRouteTexts == { <<P("{"), S("use_tool"), P(":"), L("true"), P("}")>> }

MalformedRouteTexts ==
    { << >>, <<W("Yes"), W("use"), W("it")>>,
      <<P("{"), S("use_tool"), P(":"), L("true"), P("}"), W("because")>>,
      <<P("{"), S("use_tool"), P(":")>> }

NonObjectRouteTexts ==
    { <<P("["), L("true"), P("]")>>, <<L("true")>>, <<L("null")>>,
      <<S("use_tool")>>, <<N("1")>> }

\* Objects whose use_tool is false, missing, null, a number or a string.
OtherObjectRouteTexts ==
    { <<P("{"), S("use_tool"), P(":"), L("false"), P("}")>>,
      <<P("{"), P("}")>>,
      <<P("{"), S("use_tool"), P(":"), L("null"), P("}")>>,
      <<P("{"), S("use_tool"), P(":"), N("1"), P("}")>>,
      <<P("{"), S("use_tool"), P(":"), S("true"), P("}")>> }

Kinds == [i \in DOMAIN printed |-> printed[i].kind]

TurnStarted == turn >= 1 /\ pc \notin {"Exit"}

\* The completions a turn requests, from its query, the catalog and the route
\* response alone.
ExpectedCalls ==
    <<Completion("route", get_router_prompt(query, tools))>> \o
    (CASE route_response \in ToolRouteTexts ->
            <<Completion("selection", get_tool_selection_prompt(query, tools))>>
       [] route_response \in MalformedRouteTexts \cup OtherObjectRouteTexts ->
            <<Completion("answer", QueryPrompt(query))>>
       [] OTHER -> << >>)

\* What a turn has printed before its last line, from the route response alone.
ExpectedNotices ==
    CASE route_response \in MalformedRouteTexts -> <<"fallback_notice">>
      [] route_response \in OtherObjectRouteTexts -> <<"direct_header">>
      [] OTHER -> << >>

\* C11: a turn depends only on its own query, the catalog and the responses
\* received in it: its calls and its output are the same function of them in
\* every turn, whatever the turns before were.
C11_TurnDependsOnOwnInputsOnly ==
    TurnStarted =>
        /\ llm_calls = ExpectedCalls
        /\ Len(tool_calls) =
              (IF tool_response \in WellFormedToolCalls(tools) THEN 1 ELSE 0)
        /\ \/ Kinds = ExpectedNotices
           \/ /\ pc = "Idle"
              /\ SubSeq(Kinds, 1, Len(Kinds) - 1) = ExpectedNotices
              /\ Kinds[Len(Kinds)] \in Outcomes
        /\ (route_response = Unset) = (pc = "Routing" \/ error_line = 97)
        /\ tool_response # Unset => route_response \in ToolRouteTexts

C11_Witness ==
    /\ turn = 2 /\ pc = "Idle"
    /\ tool_calls # << >>
    /\ Kinds = <<"tool_result">>

C12_State ==
    /\ fetches <= 1
    /\ pc # "Start" => fetches = 1 /\ tools \in Catalogs
    /\ TurnStarted =>
          /\ llm_calls[1].prompt.kind = "router"
          /\ llm_calls[1].prompt.embedded =
                [i \in DOMAIN tools |-> <<tools[i].name>>]
          /\ \A i \in DOMAIN llm_calls :
                llm_calls[i].prompt.kind = "selection" =>
                    llm_calls[i].prompt.embedded =
                        [j \in DOMAIN tools |->
                            <<tools[j].name, tools[j].description,
                              tools[j].inputSchema>>]
          /\ verdict = "True" =>
                \E i \in DOMAIN tools :
                    tool_response \in WellFormedToolCalls(<<tools[i]>>)

C12_Step ==
    /\ pc # "Start" => tools' = tools /\ fetches' = fetches
    /\ pc = "Start" => fetches' = 1

\* C12: the catalog is fetched once, at session start, and never changes
\* afterwards; the router prompt, the selection prompt and the validator of
\* every turn use that catalog.
C12_CatalogFetchedOnceReadOnly == []C12_State /\ [][C12_Step]_vars

C12_Witness ==
    /\ turn = 2 /\ pc = "ToolCall"
    /\ tools = <<BmiTool, EchoTool>>

\* C13: when call_tool returns without error the turn prints the tool result
\* and no tool-execution-failed notice, whatever content it returned.
C13_ReturnedToolCallPrintsResult ==
    (pc = "Idle" /\ tool_calls # << >> /\ caught \notin ToolErrors) =>
        /\ Kinds = <<"tool_result">>
        /\ caught = ""

\* json.dumps of a parsed value, token by token.
RECURSIVE dumps(_)
RECURSIVE dumps_all(_, _)
dumps_all(items, object) ==
    IF items = << >> THEN << >>
    ELSE (IF object
          THEN <<S(items[1][1]), P(":")>> \o dumps(items[1][2])
          ELSE dumps(items[1]))
         \o (IF Len(items) > 1 THEN <<P(",")>> ELSE << >>)
         \o dumps_all(Tail(items), object)

dumps(v) ==
    CASE v[1] = "str" -> <<S(v[2])>>
      [] v[1] = "num" -> <<N(v[2])>>
      [] v[1] = "bool" -> <<L(v[2])>>
      [] v[1] = "null" -> <<L("null")>>
      [] v[1] = "arr" -> <<P("[")>> \o dumps_all(v[2], FALSE) \o <<P("]")>>
      [] v[1] = "obj" -> <<P("{")>> \o dumps_all(v[2], TRUE) \o <<P("}")>>

\* json.dumps({"tool": name, "arguments": arguments}) of a call_tool call.
Reserialized(call) ==
    JsonObject(<<S("tool"), P(":")>> \o dumps(call.name)
               \o <<P(","), S("arguments"), P(":")>> \o dumps(call.arguments))

\* The response with a repeated "tool" member, by its length.
RepeatsMember(text) == Len(text) = 14 /\ text[6] = S("tool")

\* C14: the request dispatched is the request validated: serializing the name
\* and arguments passed to call_tool gives back the {tool, arguments} of the
\* accepted response, nothing added, dropped or rewritten.
C14_DispatchedEqualsValidated ==
    tool_calls # << >> =>
        LET re == Reserialized(tool_calls[1]) IN
        /\ re \in WellFormedToolCalls(tools)
        /\ ~ RepeatsMember(tool_response) => re = tool_response
        /\ RepeatsMember(tool_response) =>
              /\ re[4] = tool_response[8]
              /\ SubSeq(re, 5, Len(re)) = SubSeq(tool_response, 9, 14)

C14_Witness ==
    /\ pc = "ToolCall"
    /\ tool_response = ToolCallText(<<S("bmi")>>, BmiArguments)
    /\ tool_calls[1].arguments[2][2] = <<"height_m", <<"num", "1.75">>>>

\* Route texts that parse but hold no boolean use_tool: the field is missing,
\* null, a number or a string.
NoBooleanRouteTexts ==
    OtherObjectRouteTexts
    \ { <<P("{"), S("use_tool"), P(":"), L("false"), P("}")>> }

TurnAnswered == pc = "Idle" /\ turn >= 1 /\ "answer" \in {Kinds[i] : i \in DOMAIN Kinds}

\* C16: a route response that does not parse into a boolean use_tool (malformed
\* JSON, use_tool missing or not a boolean) prints the fallback notice before
\* the direct answer; a well-formed use_tool = false prints the direct answer
\* without the fallback notice.
C16_FallbackNoticeOnParseError ==
    TurnAnswered =>
        IF route_response \in MalformedRouteTexts \cup NoBooleanRouteTexts
        THEN Kinds = <<"fallback_notice", "answer">>
        ELSE "fallback_notice" \notin {Kinds[i] : i \in DOMAIN Kinds}

\* C17: use_tool = true with an Invalid selection response prints the
\* invalid-tool-call notice, calls no tool, requests no further completion and
\* is back at Idle.
C17_InvalidSelectionIsReportedOnly ==
    (route_response \in ToolRouteTexts /\ verdict = "False") =>
        /\ pc = "Idle"
        /\ Kinds = <<"invalid_tool_call">>
        /\ tool_calls = << >>
        /\ Purposes = <<"route", "selection">>
        /\ inflight = << >>
        /\ error = ""

C17_Witness ==
    /\ verdict = "False"
    /\ tools = <<BmiTool>>
    /\ tool_response = ToolCallText(<<S("unknown_tool")>>, <<P("{"), P("}")>>)
    /\ pc = "Idle"

\* C18: no retry: a turn requests at most two completions, the route and then
\* at most one of selection or answer, and calls a tool at most once; a turn
\* that is back at Idle requested exactly two completions.
C18_NoRetry ==
    TurnStarted =>
        /\ Len(llm_calls) \in {1, 2}
        /\ Purposes[1] = "route"
        /\ Len(llm_calls) = 2 => Purposes[2] \in {"selection", "answer"}
        /\ Len(tool_calls) <= 1
        /\ pc = "Idle" => Len(llm_calls) = 2

C18_Witness ==
    /\ pc = "Idle" /\ turn = 1
    /\ caught \in ToolErrors
    /\ Len(tool_calls) = 1 /\ Len(llm_calls) = 2

\* C19: the tool path is entered only when the route response is an object
\* whose use_tool is the boolean true; every other object (use_tool false,
\* missing, null, a number, a string) takes the direct-answer path, with no
\* selection call and no call_tool.
C19_ToolPathOnlyOnTrue ==
    /\ (pc \in {"Selecting", "ToolCall"} \/ tool_calls # << >>
        \/ tool_response # Unset
        \/ "selection" \in {Purposes[i] : i \in DOMAIN Purposes})
          => route_response \in ToolRouteTexts
    /\ route_response \in OtherObjectRouteTexts =>
          /\ pc \in {"Direct", "Idle", "Crashed"}
          /\ Purposes = <<"route", "answer">>
          /\ tool_calls = << >>
          /\ Kinds[1] = "direct_header"

C19_Witness ==
    /\ route_response = <<P("{"), S("use_tool"), P(":"), S("true"), P("}")>>
    /\ pc = "Idle"
    /\ Kinds = <<"direct_header", "answer">>

\* The four outcomes of a turn, as the kinds it printed.
TurnOutcomes ==
    { <<"fallback_notice", "answer">>, <<"direct_header", "answer">>,
      <<"invalid_tool_call">>, <<"tool_result">>, <<"tool_failed">> }

\* C20: when every external call returns, with a value or an error, and the
\* route response is non-JSON text or a JSON object, a non-exit query brings
\* the loop back to Idle with exactly one of the four outcomes printed: the
\* turn does not end anywhere else.
C20_TurnEndsAtIdleWithOneOutcome ==
    (TurnStarted /\ route_response \notin NonObjectRouteTexts) =>
        /\ pc # "Crashed"
        /\ pc = "Idle" => Kinds \in TurnOutcomes

=============================================================================
